---- MODULE Spec2Model ----
(***************************************************************************)
(* Model of ionhashtest/ion_hash_test_driver.py: the digest comparator     *)
(* (report, compare_test), the descriptor parser (tokenize_description),   *)
(* the resource resolver (IonResource) and the orchestrator                *)
(* (ion_hash_test_driver).                                                 *)
(*                                                                         *)
(* Strings are sequences of symbols.  A symbol is a character or, for the  *)
(* fixed texts the code tests for, the whole text ("[unable to digest").   *)
(***************************************************************************)
EXTENDS Integers, Sequences, FiniteSets, TLC

VARIABLES
    \* ---- comparator (report / compare_test) ----
    fs,                     \* the capture files report() opens: name -> raw lines of "<name>.out"
    impls_arg,              \* report()'s argument impls, as the sequence of their _name
    test_file_arg,          \* report()'s argument test_file, as its sequence of raw lines
    the_report,             \* the value report() returned last
    digest_no_comparison,   \* module global, line 190
    digest_matches,         \* module global, line 191
    digest_inconsistencies, \* module global, line 192
    rpc,                    \* "idle": no report in hand; "returned": report() has returned
    \* ---- descriptor parser (tokenize_description) ----
    description,            \* tokenize_description()'s argument description
    has_name,               \* tokenize_description()'s argument has_name
    tokenized,              \* what the call did: not yet called, returned a tuple, or raised
    \* ---- resources (IonResource, IonHashImplementation) ----
    objs,                   \* the resource objects constructed so far, in order
    disk,                   \* the output root on disk, and the process's working directory
    serial,                 \* install() calls started; numbers the clones
    last,                   \* what the last resource operation met and did
    \* ---- orchestrator (ion_hash_test_driver) ----
    arguments,              \* the parsed command line
    git_ok,                 \* whether `git --help` can be run (the environment)
    pc,                     \* the step of ion_hash_test_driver the run is at
    idx,                    \* the implementation the install or test loop is at
    failure,                \* the kind of the error that ended the run, "" if none
    corpus,                 \* the lines of the generated test file
    trace                   \* the steps taken so far, in order

reportVars == <<fs, impls_arg, test_file_arg, the_report,
                digest_no_comparison, digest_matches, digest_inconsistencies, rpc>>

tokenizeVars == <<description, has_name, tokenized>>

resourceVars == <<objs, disk, serial, last>>

driverVars == <<arguments, git_ok, pc, idx, failure, corpus, trace>>

vars == <<reportVars, tokenizeVars, resourceVars, driverVars>>

----------------------------------------------------------------------------
(* Bounds of the model. *)

\* longest capture file, in lines
MaxCaptureLines == 1
\* longest corpus (test file), in lines
MaxCorpusLines == 2
\* longest implementation list handed to report()
MaxImpls == 2
\* report() is called while the three global counters together are at most this
MaxCounted == 1
\* longest resource description, in characters
MaxDescLen == 4
\* resource objects constructed in one process
MaxObjects == 1
\* install() calls in one process
MaxInstalls == 2
\* --implementation options on one command line
MaxExplicit == 2

----------------------------------------------------------------------------
(* Strings *)

\* the prefix compare_test looks for
SENTINEL_PREFIX == "[unable to digest"

\* the value compare_test records for a sentinel line: "[unable to digest]"
UNABLE == <<SENTINEL_PREFIX, "]">>

Whitespace == {" ", "\n"}

\* str.rstrip(): the string without its trailing whitespace
RECURSIVE rstrip(_)
rstrip(s) ==
    IF s = <<>> THEN <<>>
    ELSE IF s[Len(s)] \in Whitespace THEN rstrip(SubSeq(s, 1, Len(s) - 1))
    ELSE s

\* str.startswith("[unable to digest")
startswith_unable(s) == Len(s) >= 1 /\ s[1] = SENTINEL_PREFIX

\* all sequences over S of length at most n
SeqsUpTo(S, n) == UNION {[1..k -> S] : k \in 0..n}

\* the set of elements of a sequence
Range(s) == {s[i] : i \in DOMAIN s}

----------------------------------------------------------------------------
(* Inputs *)

\* names of implementations
ImplNames == {"a", "b"}

\* raw lines an implementation's executable may have written to its capture file
CaptureLines ==
    { <<"d1", "\n">>,
      <<"d1", " ", "\n">>,
      <<"d2", "\n">>,
      <<SENTINEL_PREFIX, ":x]", "\n">>,
      <<SENTINEL_PREFIX, ":y]", " ", "\n">> }

CaptureFiles == SeqsUpTo(CaptureLines, MaxCaptureLines)

\* the i-th line of the generated corpus
TestVector(i) == [k \in 1..i |-> "v"] \o <<"\n">>

\* test files: the first n lines of the corpus
TestFiles == {[i \in 1..n |-> TestVector(i)] : n \in 0..MaxCorpusLines}

ImplLists == SeqsUpTo(ImplNames, MaxImpls)

----------------------------------------------------------------------------
(* compare_test, lines 223-259 *)

\* a readline() that never advances: the first line (if any) is read every time
readline_first(file, pos) == IF 1 <= Len(file) THEN file[1] ELSE <<>>

\* file.readline(): the line at the stream's position, '' at end of file
readline(file, pos) == IF pos <= Len(file) THEN file[pos] ELSE <<>>

\* read_digest without lines 231-232: the line is recorded as it was read
read_digest_raw(file, pos) == rstrip(readline(file, pos))

\* lines 230-234: the digest recorded for one stream
read_digest(file, pos) ==
    LET digest == rstrip(readline(file, pos))
    IN  IF startswith_unable(digest) THEN UNABLE ELSE digest

\* lines 247-251: entry is created once, before the loop, and appended once per
\* implementation: the list holds the same (complete) mapping once per key
impl_digests_of(digests) ==
    [k \in 1..Cardinality(DOMAIN digests) |-> digests]

\* digest_comparison_of with line 242 reading `len(digest_set) >= 1`
digest_comparison_any(line, digests) ==
    LET digest_set == {digests[n] : n \in DOMAIN digests}
    IN  IF Cardinality(digest_set) = 0
        THEN [result |-> "no_comparison", value |-> line]
        ELSE [result |-> "full_match",
              digest |-> CHOOSE d \in digest_set : TRUE,
              value  |-> line]

\* lines 238-257: the comparison built from the digests read for one line
digest_comparison_of(line, digests) ==
    LET digest_set == {digests[n] : n \in DOMAIN digests}
    IN  IF Cardinality(digest_set) = 0
        THEN [result |-> "no_comparison", value |-> line]
        ELSE IF Cardinality(digest_set) = 1
        THEN [result |-> "full_match",
              digest |-> CHOOSE d \in digest_set : TRUE,
              value  |-> line]
        ELSE [result  |-> "inconsistent",
              digests |-> impl_digests_of(digests),
              value   |-> line]

\* one call of compare_test on the comparator's state st =
\* [pos: stream positions, comps: digest_comparisons, nc, m, inc: the three globals]
compare_test(line, files, st) ==
    LET digests == [n \in DOMAIN st.pos |-> read_digest(files[n], st.pos[n])]
        cmp     == digest_comparison_of(line, digests)
    IN  [pos   |-> [n \in DOMAIN st.pos |->
                      IF st.pos[n] <= Len(files[n]) THEN st.pos[n] + 1 ELSE st.pos[n]],
         comps |-> Append(st.comps, cmp),
         nc    |-> st.nc  + (IF cmp.result = "no_comparison" THEN 1 ELSE 0),
         m     |-> st.m   + (IF cmp.result = "full_match"    THEN 1 ELSE 0),
         inc   |-> st.inc + (IF cmp.result = "inconsistent"  THEN 1 ELSE 0)]

----------------------------------------------------------------------------
(* tokenize_description, lines 262-284 *)

\* str.split(','): the pieces between the commas; always at least one piece
RECURSIVE split_from(_, _, _)
split_from(s, i, piece) ==
    IF i > Len(s) THEN <<piece>>
    ELSE IF s[i] = "," THEN <<piece>> \o split_from(s, i + 1, <<>>)
    ELSE split_from(s, i + 1, Append(piece, s[i]))

split(s) == split_from(s, 1, <<>>)

\* line 276: the default revision
MASTER == <<"master">>

\* raise ValueError(msg)
Raised(msg) == [raised |-> TRUE, error |-> msg]
\* return value
Returns(value) == [raised |-> FALSE, value |-> value]

\* lines 271-284
tokenize_description(desc, hasname) ==
    LET components == split(desc)
        max_components == IF hasname THEN 3 ELSE 2
        revision == IF Len(components) < max_components
                    THEN MASTER
                    ELSE components[max_components]
    IN  IF Len(components) < max_components - 1
        THEN Raised("Invalid implementation description.")
        ELSE IF hasname
        THEN Returns(<<components[1], components[max_components - 1], revision>>)
        ELSE Returns(<<components[max_components - 1], revision>>)

\* the characters of the descriptions tried
DescChars == {"n", "l", ","}

Descriptions == SeqsUpTo(DescChars, MaxDescLen)

NotCalled == [raised |-> FALSE, value |-> <<>>, called |-> FALSE]

\* one call tokenize_description(description, has_name)
Tokenize ==
    /\ tokenized = NotCalled
    /\ tokenized' = tokenize_description(description, has_name)
    /\ UNCHANGED <<description, has_name>>
    /\ UNCHANGED <<reportVars, resourceVars, driverVars>>

----------------------------------------------------------------------------
(* IonResource and IonHashImplementation, lines 95-187 *)

\* Python's None
None == <<>>

\* the name the driver gives the test-vector source, lines 297 and 312
ION_HASH_TEST == <<"ion-hash-test">>

\* ionhashtest.config.ION_BUILDS: name -> build; `execute` is the path of the
\* executable relative to the build directory, None when the build has none
ION_BUILDS ==
    (<<"a">> :> [execute |-> <<"exe">>]) @@
    (<<"b">> :> [execute |-> <<"exe">>]) @@
    (ION_HASH_TEST :> [execute |-> None])

\* a name ION_BUILDS has no entry for
UNKNOWN_NAME == <<"x">>

\* the names resource objects are constructed with
ResourceNames == {<<"a">>, ION_HASH_TEST, UNKNOWN_NAME}

LOCATION == <<"l">>

\* the short commit hashes `git rev-parse --short HEAD` may print
Commits == {"c1", "c2"}

\* line 140: name + '_' + commit
identifier_of(name, commit) == name \o <<"_", commit>>

Identifiers == {identifier_of(n, c) : n \in DOMAIN ION_BUILDS, c \in Commits}

\* working directories
CwdStart       == [kind |-> "start",       of |-> None, gone |-> FALSE]
CwdOutputRoot  == [kind |-> "output_root", of |-> None, gone |-> FALSE]
CwdTmp(name)   == [kind |-> "tmp",         of |-> name, gone |-> FALSE]
CwdBuild(id)   == [kind |-> "build",       of |-> id,   gone |-> FALSE]

\* the disk before anything was built: builds and logs give, per identifier, the
\* number of the clone that became <output_root>/build/<identifier> and
\* <output_root>/build/logs/<identifier>.txt (0: no such directory or file)
EmptyDisk ==
    [out_root |-> TRUE,
     tmp_root |-> FALSE,
     logs_dir |-> FALSE,
     builds   |-> [id \in Identifiers |-> 0],
     logs     |-> [id \in Identifiers |-> 0],
     exes     |-> {},
     captured |-> {},
     capture  |-> [n \in DOMAIN ION_BUILDS |-> <<>>],
     cwd      |-> CwdStart]

\* IonResource without the lookup of lines 106-109: any name is taken
IonResource_unchecked(name, location, revision) ==
    Returns([name       |-> name,
             build_dir  |-> None,
             build_log  |-> None,
             identifier |-> None,
             executable |-> None,
             location   |-> location,
             revision   |-> revision])

\* lines 96-116: IonResource.__init__
IonResource(name, location, revision) ==
    IF name \notin DOMAIN ION_BUILDS
    THEN Raised("No installer for name.")
    ELSE Returns([name       |-> name,
                  build_dir  |-> None,
                  build_log  |-> None,
                  identifier |-> None,
                  executable |-> None,
                  location   |-> location,
                  revision   |-> revision])

\* the steps of install() that the environment may make fail
FailPoints == {"none", "makedirs_tmp", "clone", "checkout", "submodule", "rev_parse",
               "makedirs_logs", "move_log", "move_dir", "install_proc"}

\* line 152: shutil.rmtree(tmp_dir_root); a working directory inside it is gone
rmtree_tmp(d) ==
    [d EXCEPT !.tmp_root = FALSE,
              !.cwd = IF d.cwd.kind = "tmp" THEN [d.cwd EXCEPT !.gone = TRUE] ELSE d.cwd]

\* outcome of one resource operation
Outcome(self, d, raised, error, existed, invoked) ==
    [self |-> self, disk |-> d, raised |-> raised, error |-> error,
     existed |-> existed, invoked |-> invoked]

\* __git_clone_revision without the test of line 146: the clone and its log are
\* moved whether or not the build directory exists
git_clone_revision_always_moves(self, d, n, fail, commit) ==
    LET made   == [d EXCEPT !.tmp_root = TRUE]
        in_tmp == [made EXCEPT !.cwd = CwdTmp(self.name)]
        identifier == identifier_of(self.name, commit)
        named  == [self EXCEPT !.identifier = identifier,
                               !.build_dir = identifier]
        logged == [named EXCEPT !.build_log = identifier]
        d1     == [in_tmp EXCEPT !.logs_dir = TRUE]
        d2     == [d1 EXCEPT !.logs[identifier] = n]
        d3     == [d2 EXCEPT !.builds[identifier] = n,
                             !.cwd = CwdBuild(identifier)]
    IN  IF fail = "makedirs_tmp" /\ ~d.tmp_root
        THEN \* makedirs raises; rmtree then raises on the missing directory
             Outcome(self, d, TRUE, "rmtree", FALSE, FALSE)
        ELSE IF fail = "clone"
        THEN Outcome(self, rmtree_tmp(made), TRUE, "clone", FALSE, FALSE)
        ELSE IF fail \in {"checkout", "submodule"} /\ self.revision # None
        THEN Outcome(self, rmtree_tmp(in_tmp), TRUE, fail, FALSE, FALSE)
        ELSE IF fail = "rev_parse"
        THEN Outcome(self, rmtree_tmp(in_tmp), TRUE, fail, FALSE, FALSE)
        ELSE IF fail = "makedirs_logs" /\ ~d.logs_dir
        THEN Outcome(named, rmtree_tmp(in_tmp), TRUE, fail, FALSE, FALSE)
        ELSE IF TRUE
        THEN IF fail = "move_log"
             THEN Outcome(logged, rmtree_tmp(d1), TRUE, fail, FALSE, FALSE)
             ELSE IF fail = "move_dir"
             THEN Outcome(logged, rmtree_tmp(d2), TRUE, fail, FALSE, FALSE)
             ELSE Outcome(logged, rmtree_tmp(d3), FALSE, "", FALSE, FALSE)
        ELSE Outcome(logged, rmtree_tmp(d1), FALSE, "", TRUE, FALSE)

\* lines 124-152: __git_clone_revision; n numbers the clone, fail is the step the
\* environment makes fail, commit is what rev-parse prints
git_clone_revision(self, d, n, fail, commit) ==
    LET made   == [d EXCEPT !.tmp_root = TRUE]                      \* lines 130-131
        in_tmp == [made EXCEPT !.cwd = CwdTmp(self.name)]           \* lines 133-135
        identifier == identifier_of(self.name, commit)              \* line 140
        named  == [self EXCEPT !.identifier = identifier,
                               !.build_dir = identifier]            \* lines 140-141
        logged == [named EXCEPT !.build_log = identifier]           \* line 145
        d1     == [in_tmp EXCEPT !.logs_dir = TRUE]                 \* lines 143-144
        d2     == [d1 EXCEPT !.logs[identifier] = n]                \* line 147
        d3     == [d2 EXCEPT !.builds[identifier] = n,
                             !.cwd = CwdBuild(identifier)]          \* line 148
    IN  IF fail = "makedirs_tmp" /\ ~d.tmp_root
        THEN \* makedirs raises; rmtree then raises on the missing directory
             Outcome(self, d, TRUE, "rmtree", FALSE, FALSE)
        ELSE IF fail = "clone"
        THEN Outcome(self, rmtree_tmp(made), TRUE, "clone", FALSE, FALSE)
        ELSE IF fail \in {"checkout", "submodule"} /\ self.revision # None
        THEN Outcome(self, rmtree_tmp(in_tmp), TRUE, fail, FALSE, FALSE)
        ELSE IF fail = "rev_parse"
        THEN Outcome(self, rmtree_tmp(in_tmp), TRUE, fail, FALSE, FALSE)
        ELSE IF fail = "makedirs_logs" /\ ~d.logs_dir
        THEN Outcome(named, rmtree_tmp(in_tmp), TRUE, fail, FALSE, FALSE)
        ELSE IF d.builds[identifier] = 0                            \* line 146
        THEN IF fail = "move_log"
             THEN Outcome(logged, rmtree_tmp(d1), TRUE, fail, FALSE, FALSE)
             ELSE IF fail = "move_dir"
             THEN Outcome(logged, rmtree_tmp(d2), TRUE, fail, FALSE, FALSE)
             ELSE Outcome(logged, rmtree_tmp(d3), FALSE, "", FALSE, FALSE)
        ELSE Outcome(logged, rmtree_tmp(d1), FALSE, "", TRUE, FALSE)  \* line 150

\* lines 154-161: install(); built says whether the install procedure leaves the
\* executable in the build directory.  The procedure (line 158) is run whatever
\* line 146 found.
install(self, d, n, fail, commit, built) ==
    LET r  == git_clone_revision(self, d, n, fail, commit)          \* line 156
        id == r.self.build_dir
        d1 == [r.disk EXCEPT !.cwd = CwdBuild(id)]                  \* line 157
        d2 == [d1 EXCEPT !.exes = IF built /\ ION_BUILDS[self.name].execute # None
                                  THEN @ \cup {id} ELSE @]          \* line 158
        d3 == [d2 EXCEPT !.cwd = CwdOutputRoot]                     \* line 159
    IN  IF r.raised THEN r
        ELSE IF fail = "install_proc"
        THEN Outcome(r.self, d1, TRUE, fail, r.existed, TRUE)
        ELSE Outcome(r.self, d3, FALSE, "", r.existed, TRUE)

\* os.path.isfile(self._executable)
isfile(d, executable) == executable \in d.exes

\* what test() did: raised or not, and which of opening the capture file and
\* spawning the executable it got to
Tested(self, d, raised, error, opened, spawn) ==
    [self |-> self, disk |-> d, raised |-> raised, error |-> error,
     opened |-> opened, spawn |-> spawn]

\* lines 183-187: the capture file is opened for writing (truncated) and holds what
\* the executable wrote
run_executable(self, d, output) ==
    [d EXCEPT !.captured = @ \cup {self.name}, !.capture[self.name] = output]

\* test() with line 183 moved to the top: the capture file is opened first
test_open_first(self, d, output) ==
    LET opened == [d EXCEPT !.captured = @ \cup {self.name}, !.capture[self.name] = <<>>]
        execute == ION_BUILDS[self.name].execute
        exe == IF self.executable # None THEN self.executable ELSE self.build_dir
        found == [self EXCEPT !.executable = exe]
    IN  IF self.build_dir = None
        THEN Tested(self, opened, TRUE, "has not been installed", TRUE, FALSE)
        ELSE IF self.executable = None /\ execute = None
        THEN Tested(self, opened, TRUE, "is not executable", TRUE, FALSE)
        ELSE IF ~isfile(d, exe)
        THEN Tested(found, opened, TRUE, "does not exist", TRUE, FALSE)
        ELSE Tested(found, run_executable(self, d, output), FALSE, "", TRUE, TRUE)

\* lines 171-187: test(); output is what the executable writes to its stdout.
\* The executable's path is the build directory joined with `execute`; it is
\* named here by the build directory.
test(self, d, output) ==
    LET execute == ION_BUILDS[self.name].execute
        exe == IF self.executable # None THEN self.executable ELSE self.build_dir
        found == [self EXCEPT !.executable = exe]                   \* line 179
    IN  IF self.build_dir = None                                    \* line 174
        THEN Tested(self, d, TRUE, "has not been installed", FALSE, FALSE)
        ELSE IF self.executable = None /\ execute = None            \* lines 176-178
        THEN Tested(self, d, TRUE, "is not executable", FALSE, FALSE)
        ELSE IF ~isfile(d, exe)                                     \* line 180
        THEN Tested(found, d, TRUE, "does not exist", FALSE, FALSE)
        ELSE Tested(found, run_executable(self, d, output), FALSE, "", TRUE, TRUE)

\* the constructor's revision argument
Revisions == {MASTER}

\* what an executable may write
ExeOutputs == {<<>>, <<<<"d1", "\n">>>>}

NoOperation ==
    [op |-> "none", index |-> 0, raised |-> FALSE, error |-> "",
     existed |-> FALSE, invoked |-> FALSE,
     opened |-> FALSE, spawn |-> FALSE]

\* the last operation with its object, kind and outcome
Operation(op, i, r) ==
    [NoOperation EXCEPT !.op = op, !.index = i, !.raised = r.raised, !.error = r.error]

\* IonHashImplementation(output_root, name, location, revision), lines 165-169
NewImplementation ==
    /\ Len(objs) < MaxObjects
    /\ \E name \in ResourceNames, revision \in Revisions :
         LET r == IonResource(name, LOCATION, revision)
         IN  /\ objs' = IF r.raised THEN objs ELSE Append(objs, r.value)
             /\ last' = [NoOperation EXCEPT !.op = "new", !.raised = r.raised,
                                            !.index = IF r.raised THEN 0 ELSE Len(objs) + 1]
    /\ UNCHANGED <<disk, serial>>
    /\ UNCHANGED <<reportVars, tokenizeVars, driverVars>>

\* objs[i].install()
Install ==
    /\ serial < MaxInstalls
    /\ \E i \in DOMAIN objs, fail \in FailPoints, commit \in Commits, built \in BOOLEAN :
         LET r == install(objs[i], disk, serial + 1, fail, commit, built)
         IN  /\ objs' = [objs EXCEPT ![i] = r.self]
             /\ disk' = r.disk
             /\ last' = [Operation("install", i, r) EXCEPT
                           !.existed = r.existed, !.invoked = r.invoked]
    /\ serial' = serial + 1
    /\ UNCHANGED <<reportVars, tokenizeVars, driverVars>>

\* objs[i].test(test_file, algorithm)
Test ==
    /\ \E i \in DOMAIN objs, output \in ExeOutputs :
         LET r == test(objs[i], disk, output)
         IN  /\ objs' = [objs EXCEPT ![i] = r.self]
             /\ disk' = r.disk
             /\ last' = [Operation("test", i, r) EXCEPT
                           !.opened = r.opened, !.spawn = r.spawn]
    /\ UNCHANGED serial
    /\ UNCHANGED <<reportVars, tokenizeVars, driverVars>>

----------------------------------------------------------------------------
(* report, lines 195-220 *)

\* lines 203-206: the loop over the lines of the test file
RECURSIVE report_loop(_, _, _, _)
report_loop(lines, i, files, st) ==
    IF i > Len(lines) THEN st
    ELSE report_loop(lines, i + 1, files, compare_test(rstrip(lines[i]), files, st))

\* lines 196-198: one stream per distinct _name (a dict keyed by name)
report_files_of(impls) == [n \in Range(impls) |-> 1]

\* the comparator's state after report()'s loop
report_run(impls, test_file, files, nc, m, inc) ==
    report_loop(test_file, 1, files,
                [pos |-> report_files_of(impls), comps |-> <<>>,
                 nc |-> nc, m |-> m, inc |-> inc])

\* lines 211-220: the returned report
report_of(st) ==
    [digests |-> st.comps,
     summary |-> [test_count           |-> Len(st.comps),
                  digest_matches       |-> st.m,
                  digest_inconsistent  |-> st.inc,
                  digest_no_comparison |-> st.nc]]

\* before the first call nothing has been returned
NoReport ==
    [digests |-> <<>>,
     summary |-> [test_count |-> 0, digest_matches |-> 0,
                  digest_inconsistent |-> 0, digest_no_comparison |-> 0]]

\* no capture file has been written or read
NoFiles == [n \in ImplNames |-> <<>>]

\* the comparisons the three globals have counted so far
Counted == digest_no_comparison + digest_matches + digest_inconsistencies

\* report(impls, test_file), lines 195-220, on the capture files the implementations'
\* runs left on disk (lines 183-187)
Report ==
    /\ rpc = "idle"
    /\ Counted <= MaxCounted
    /\ \E files \in [ImplNames -> CaptureFiles], impls \in ImplLists, test_file \in TestFiles :
         LET st == report_run(impls, test_file, files,
                              digest_no_comparison, digest_matches, digest_inconsistencies)
         IN  /\ fs' = files
             /\ impls_arg' = impls
             /\ test_file_arg' = test_file
             /\ the_report' = report_of(st)
             /\ digest_no_comparison' = st.nc
             /\ digest_matches' = st.m
             /\ digest_inconsistencies' = st.inc
    /\ rpc' = "returned"
    /\ UNCHANGED <<tokenizeVars, resourceVars, driverVars>>

\* line 332: the caller prints the report and keeps nothing of it; the globals stay
PrintReport ==
    /\ rpc = "returned"
    /\ fs' = NoFiles
    /\ impls_arg' = <<>>
    /\ test_file_arg' = <<>>
    /\ the_report' = NoReport
    /\ rpc' = "idle"
    /\ UNCHANGED <<digest_no_comparison, digest_matches, digest_inconsistencies>>
    /\ UNCHANGED <<tokenizeVars, resourceVars, driverVars>>

----------------------------------------------------------------------------
(* ion_hash_test_driver, lines 292-332 *)

\* resource descriptions given on the command line
DescA       == <<"a", ",", "l">>                  \* a, default revision
DescARev    == <<"a", ",", "l", ",", "r">>        \* a at revision r
DescUnknown == <<"x", ",", "l">>                  \* a name without a build
DescShort   == <<"a">>                            \* a name without a location
DescSource  == <<"ion-hash-test", ",", "l">>      \* a build without an executable

DriverDescriptions == {DescA, DescARev, DescUnknown, DescShort, DescSource}

\* ionhashtest.config.ION_IMPLEMENTATIONS: the default implementations
ION_IMPLEMENTATIONS == << <<"b", ",", "l">> >>

\* ionhashtest.config.ION_HASH_TEST_SOURCE: the default test-vector source
ION_HASH_TEST_SOURCE == <<"l">>

\* --ion-hash-test: the usage pattern repeats the option ("]..."), so docopt
\* gives the list of the descriptions given: empty, or one location,revision
SourceArguments == {<<>>, << <<"l", ",", "r">> >>}

\* the docopt result, for the three usage patterns
Arguments ==
    [help : {FALSE}, list : {FALSE},
     implementation : SeqsUpTo(DriverDescriptions, MaxExplicit),
     ion_hash_test : SourceArguments,
     local_only : BOOLEAN]
    \cup {[help |-> h, list |-> ~h, implementation |-> <<>>,
           ion_hash_test |-> <<>>, local_only |-> FALSE] : h \in BOOLEAN}

\* what `git rev-parse --short HEAD` prints for a revision of the one location;
\* it does not change during a run
commit_of(revision) == IF revision = MASTER THEN "c1" ELSE "c2"

\* lines 287-289: the objects for the descriptions from the i-th on, or the first error
RECURSIVE parse_implementations_from(_, _)
parse_implementations_from(descriptions, i) ==
    IF i > Len(descriptions) THEN Returns(<<>>)
    ELSE LET t == tokenize_description(descriptions[i], TRUE)
         IN  IF t.raised THEN t
             ELSE LET o == IonResource(t.value[1], t.value[2], t.value[3])
                  IN  IF o.raised THEN o
                      ELSE LET rest == parse_implementations_from(descriptions, i + 1)
                           IN  IF rest.raised THEN rest
                               ELSE Returns(<<o.value>> \o rest.value)

parse_implementations(descriptions) == parse_implementations_from(descriptions, 1)

\* lines 304-306: the explicit implementations, then the default ones unless --local-only
requested_implementations(args) ==
    LET explicit == parse_implementations(args.implementation)
    IN  IF explicit.raised \/ args.local_only THEN explicit
        ELSE LET default == parse_implementations(ION_IMPLEMENTATIONS)
             IN  IF default.raised THEN default
                 ELSE Returns(explicit.value \o default.value)

\* check_tool_dependencies without the check_call of line 88
check_tool_dependencies_skipped(ok) == Returns(<<>>)

\* lines 72-92: check_tool_dependencies raises when a tool cannot be run
check_tool_dependencies(ok) == IF ok THEN Returns(<<>>) ELSE Raised("git not found.")

Event(ev, i) == [ev |-> ev, i |-> i]

\* the branch of lines 293-299 with the `elif` of line 295 left out
mode_without_list(args) == IF args.help THEN "help" ELSE "run"

\* lines 293-299: which branch the arguments select
mode(args) ==
    IF args.help THEN "help"
    ELSE IF args.list THEN "list"
    ELSE "run"

\* after_install with lines 310-313 left out: generation follows the last install
after_install_without_source(i, n) == IF i < n THEN "install" ELSE "generate"

\* the step after the install of implementation i: the next one, or the test source
after_install(i, n) == IF i < n THEN "install" ELSE "source"

\* the step after the run of implementation i: the next one, or the report
after_test(i, n) == IF i < n THEN "test" ELSE "report"

\* lines 293-294
ShowHelp ==
    /\ pc = "start"
    /\ mode(arguments) = "help"
    /\ pc' = "done"
    /\ trace' = Append(trace, Event("usage", 0))
    /\ UNCHANGED <<arguments, git_ok, idx, failure, corpus>>
    /\ UNCHANGED <<reportVars, tokenizeVars, resourceVars>>

\* lines 295-298
ListBuilds ==
    /\ pc = "start"
    /\ mode(arguments) = "list"
    /\ pc' = "done"
    /\ trace' = Append(trace, Event("list", 0))
    /\ UNCHANGED <<arguments, git_ok, idx, failure, corpus>>
    /\ UNCHANGED <<reportVars, tokenizeVars, resourceVars>>

\* lines 300-302
MakeOutputRoot ==
    /\ pc = "start"
    /\ mode(arguments) = "run"
    /\ disk' = [disk EXCEPT !.out_root = TRUE]
    /\ trace' = IF disk.out_root THEN trace ELSE Append(trace, Event("makedirs", 0))
    /\ pc' = "parse"
    /\ UNCHANGED <<arguments, git_ok, idx, failure, corpus>>
    /\ UNCHANGED <<reportVars, tokenizeVars, objs, serial, last>>

\* lines 304-306
ParseImplementations ==
    /\ pc = "parse"
    /\ LET r == requested_implementations(arguments)
       IN  /\ objs' = IF r.raised THEN objs ELSE r.value
           /\ pc' = IF r.raised THEN "failed" ELSE "check_tools"
           /\ failure' = IF r.raised THEN "configuration" ELSE failure
    /\ trace' = Append(trace, Event("parse", 0))
    /\ UNCHANGED <<arguments, git_ok, idx, corpus>>
    /\ UNCHANGED <<reportVars, tokenizeVars, disk, serial, last>>

\* line 307
CheckTools ==
    /\ pc = "check_tools"
    /\ LET r == check_tool_dependencies(git_ok)
       IN  /\ pc' = IF r.raised THEN "failed" ELSE after_install(0, Len(objs))
           /\ failure' = IF r.raised THEN "tool" ELSE failure
    /\ idx' = 1
    /\ trace' = Append(trace, Event("check_tools", 0))
    /\ UNCHANGED <<arguments, git_ok, corpus>>
    /\ UNCHANGED <<reportVars, tokenizeVars, resourceVars>>

\* lines 308-309: one turn of the loop
InstallImplementation ==
    /\ pc = "install"
    /\ \E fail \in FailPoints, built \in BOOLEAN :
         LET r == install(objs[idx], disk, serial + 1, fail,
                          commit_of(objs[idx].revision), built)
         IN  /\ objs' = [objs EXCEPT ![idx] = r.self]
             /\ disk' = r.disk
             /\ last' = [Operation("install", idx, r) EXCEPT
                           !.existed = r.existed, !.invoked = r.invoked]
             /\ pc' = IF r.raised THEN "failed" ELSE after_install(idx, Len(objs))
             /\ failure' = IF r.raised THEN "resolution" ELSE failure
    /\ serial' = serial + 1
    /\ idx' = idx + 1
    /\ trace' = Append(trace, Event("install", idx))
    /\ UNCHANGED <<arguments, git_ok, corpus>>
    /\ UNCHANGED <<reportVars, tokenizeVars>>

\* line 310, `arguments['--ion-hash-test'] or ION_HASH_TEST_SOURCE`: the list of
\* the descriptions given when it is not empty, else the default description
ion_hash_test_source(args) ==
    IF args.ion_hash_test # <<>>
    THEN [is_list |-> TRUE, description |-> <<>>]
    ELSE [is_list |-> FALSE, description |-> ION_HASH_TEST_SOURCE]

\* lines 310-313: the test-vector source is described, constructed and installed.
\* tokenize_description calls split(',') on what it is given; a list has no split
\* and the call raises AttributeError.
InstallTestSource ==
    /\ pc = "source"
    /\ \E fail \in FailPoints :
         LET source == ion_hash_test_source(arguments)
             t == IF source.is_list
                  THEN Raised("'list' object has no attribute 'split'")
                  ELSE tokenize_description(source.description, FALSE)
             o == IF t.raised THEN t ELSE IonResource(ION_HASH_TEST, t.value[1], t.value[2])
             r == install(o.value, disk, serial + 1, fail,
                          commit_of(o.value.revision), FALSE)
         IN  IF o.raised
             THEN /\ pc' = "failed"
                  /\ failure' = IF source.is_list THEN "attribute" ELSE "configuration"
                  /\ serial' = serial
                  /\ UNCHANGED <<disk, last>>
             ELSE /\ disk' = r.disk
                  /\ last' = [Operation("install", 0, r) EXCEPT
                                !.existed = r.existed, !.invoked = r.invoked]
                  /\ pc' = IF r.raised THEN "failed" ELSE "generate"
                  /\ failure' = IF r.raised THEN "resolution" ELSE failure
                  /\ serial' = serial + 1
    /\ trace' = Append(trace, Event("install_source", 0))
    /\ UNCHANGED <<arguments, git_ok, idx, corpus, objs>>
    /\ UNCHANGED <<reportVars, tokenizeVars>>

\* line 325: generate_tests writes the test file
GenerateTests ==
    /\ pc = "generate"
    /\ corpus' \in TestFiles
    /\ pc' = after_test(0, Len(objs))
    /\ idx' = 1
    /\ trace' = Append(trace, Event("generate", 0))
    /\ UNCHANGED <<arguments, git_ok, failure>>
    /\ UNCHANGED <<reportVars, tokenizeVars, resourceVars>>

\* lines 328-329: one turn of the loop
TestImplementation ==
    /\ pc = "test"
    /\ \E output \in ExeOutputs :
         LET r == test(objs[idx], disk, output)
         IN  /\ objs' = [objs EXCEPT ![idx] = r.self]
             /\ disk' = r.disk
             /\ last' = [Operation("test", idx, r) EXCEPT
                           !.opened = r.opened, !.spawn = r.spawn]
             /\ pc' = IF r.raised THEN "failed" ELSE after_test(idx, Len(objs))
             /\ failure' = IF r.raised THEN "execution" ELSE failure
    /\ idx' = idx + 1
    /\ trace' = Append(trace, Event("test", idx))
    /\ UNCHANGED <<arguments, git_ok, corpus, serial>>
    /\ UNCHANGED <<reportVars, tokenizeVars>>

\* lines 331-332: the report over every implementation's capture file
ReportResults ==
    /\ pc = "report"
    /\ LET impls == [i \in DOMAIN objs |-> objs[i].name]
           st == report_run(impls, corpus, disk.capture,
                            digest_no_comparison, digest_matches, digest_inconsistencies)
       IN  /\ impls_arg' = impls
           /\ test_file_arg' = corpus
           /\ the_report' = report_of(st)
           /\ digest_no_comparison' = st.nc
           /\ digest_matches' = st.m
           /\ digest_inconsistencies' = st.inc
    /\ rpc' = "returned"
    /\ pc' = "done"
    /\ trace' = Append(trace, Event("report", 0))
    /\ UNCHANGED <<arguments, git_ok, idx, failure, corpus, fs>>
    /\ UNCHANGED <<tokenizeVars, resourceVars>>

----------------------------------------------------------------------------
(* Specifications *)

\* report() called again and again in one process, on any capture files
ReportInit ==
    /\ fs = NoFiles
    /\ impls_arg = <<>>
    /\ test_file_arg = <<>>
    /\ the_report = NoReport
    /\ digest_no_comparison = 0
    /\ digest_matches = 0
    /\ digest_inconsistencies = 0
    /\ rpc = "idle"
    /\ description = <<>>
    /\ has_name = FALSE
    /\ tokenized = NotCalled
    /\ objs = <<>>
    /\ disk = EmptyDisk
    /\ serial = 0
    /\ last = NoOperation
    /\ arguments = [help |-> TRUE, list |-> FALSE, implementation |-> <<>>,
                    ion_hash_test |-> <<>>, local_only |-> FALSE]
    /\ git_ok = TRUE
    /\ pc = "idle"
    /\ idx = 0
    /\ failure = ""
    /\ corpus = <<>>
    /\ trace = <<>>

ReportNext == Report \/ PrintReport

SpecReport == ReportInit /\ [][ReportNext]_vars

\* tokenize_description() called once on any description
TokenizeInit ==
    /\ fs = NoFiles
    /\ impls_arg = <<>>
    /\ test_file_arg = <<>>
    /\ the_report = NoReport
    /\ digest_no_comparison = 0
    /\ digest_matches = 0
    /\ digest_inconsistencies = 0
    /\ rpc = "idle"
    /\ description \in Descriptions
    /\ has_name \in BOOLEAN
    /\ tokenized = NotCalled
    /\ objs = <<>>
    /\ disk = EmptyDisk
    /\ serial = 0
    /\ last = NoOperation
    /\ arguments = [help |-> TRUE, list |-> FALSE, implementation |-> <<>>,
                    ion_hash_test |-> <<>>, local_only |-> FALSE]
    /\ git_ok = TRUE
    /\ pc = "idle"
    /\ idx = 0
    /\ failure = ""
    /\ corpus = <<>>
    /\ trace = <<>>

TokenizeNext == Tokenize

SpecTokenize == TokenizeInit /\ [][TokenizeNext]_vars

\* resource objects constructed, installed and tested in any order
ResourceInit ==
    /\ fs = NoFiles
    /\ impls_arg = <<>>
    /\ test_file_arg = <<>>
    /\ the_report = NoReport
    /\ digest_no_comparison = 0
    /\ digest_matches = 0
    /\ digest_inconsistencies = 0
    /\ rpc = "idle"
    /\ description = <<>>
    /\ has_name = FALSE
    /\ tokenized = NotCalled
    /\ objs = <<>>
    /\ disk = EmptyDisk
    /\ serial = 0
    /\ last = NoOperation
    /\ arguments = [help |-> TRUE, list |-> FALSE, implementation |-> <<>>,
                    ion_hash_test |-> <<>>, local_only |-> FALSE]
    /\ git_ok = TRUE
    /\ pc = "idle"
    /\ idx = 0
    /\ failure = ""
    /\ corpus = <<>>
    /\ trace = <<>>

ResourceNext == NewImplementation \/ Install \/ Test

SpecResource == ResourceInit /\ [][ResourceNext]_vars

\* one run of ion_hash_test_driver on any command line, in a fresh process
Init ==
    /\ fs = NoFiles
    /\ impls_arg = <<>>
    /\ test_file_arg = <<>>
    /\ the_report = NoReport
    /\ digest_no_comparison = 0
    /\ digest_matches = 0
    /\ digest_inconsistencies = 0
    /\ rpc = "idle"
    /\ description = <<>>
    /\ has_name = FALSE
    /\ tokenized = NotCalled
    /\ objs = <<>>
    /\ disk \in {[EmptyDisk EXCEPT !.out_root = e] : e \in BOOLEAN}
    /\ serial = 0
    /\ last = NoOperation
    /\ arguments \in Arguments
    /\ git_ok \in BOOLEAN
    /\ pc = "start"
    /\ idx = 0
    /\ failure = ""
    /\ corpus = <<>>
    /\ trace = <<>>

Next ==
    \/ ShowHelp
    \/ ListBuilds
    \/ MakeOutputRoot
    \/ ParseImplementations
    \/ CheckTools
    \/ InstallImplementation
    \/ InstallTestSource
    \/ GenerateTests
    \/ TestImplementation
    \/ ReportResults

Spec == Init /\ [][Next]_vars

----------------------------------------------------------------------------
(* What a returned report is measured against: the capture files and the test *)
(* file of the call, read here directly and not through the comparator.       *)

Returned == rpc = "returned"

\* the names of the implementations handed to report()
ReportedNames == Range(impls_arg)

\* the corpus lines of the call
CorpusIndex == 1..Len(test_file_arg)

\* the k-th line of n's capture file without its trailing whitespace; '' when the
\* file has no k-th line
CapturedLine(n, k) == IF k <= Len(fs[n]) THEN rstrip(fs[n][k]) ELSE <<>>

IsSentinelLine(n, k) == startswith_unable(CapturedLine(n, k))

\* the captured line after sentinel normalisation
CapturedValue(n, k) == IF IsSentinelLine(n, k) THEN UNABLE ELSE CapturedLine(n, k)

Comparison(k) == the_report.digests[k]

\* the digest a comparison records for implementation n, in whichever field holds it
RecordedFor(c, n) ==
    IF c.result = "full_match" THEN {c.digest}
    ELSE IF c.result = "inconsistent"
    THEN {c.digests[j][n] : j \in {x \in DOMAIN c.digests : n \in DOMAIN c.digests[x]}}
    ELSE {}

\* C1 (as claimed): when report() returns for N >= 1 implementations whose capture
\* files are identical, every corpus line is full_match and the summary counts
\* digest_matches = number of corpus lines, digest_inconsistent = 0 and
\* digest_no_comparison = 0.
C1_IdenticalOutputsAllFullMatch ==
    (/\ Returned
     /\ Len(impls_arg) >= 1
     /\ \A n, m \in ReportedNames : fs[n] = fs[m])
    => /\ Len(the_report.digests) = Len(test_file_arg)
       /\ \A k \in CorpusIndex : Comparison(k).result = "full_match"
       /\ the_report.summary.digest_matches = Len(test_file_arg)
       /\ the_report.summary.digest_inconsistent = 0
       /\ the_report.summary.digest_no_comparison = 0

\* C1, the part the code keeps: the classification, and the counts of a call made
\* while the three globals are still zero (then the_report counts this call alone).
C1_ClassificationAndFirstCallCounts ==
    (/\ Returned
     /\ Len(impls_arg) >= 1
     /\ \A n, m \in ReportedNames : fs[n] = fs[m])
    => /\ Len(the_report.digests) = Len(test_file_arg)
       /\ \A k \in CorpusIndex : Comparison(k).result = "full_match"
       /\ the_report.summary.test_count = Len(test_file_arg)
       /\ (Counted = Len(test_file_arg))
          => /\ the_report.summary.digest_matches = Len(test_file_arg)
             /\ the_report.summary.digest_inconsistent = 0
             /\ the_report.summary.digest_no_comparison = 0

\* C2: when report() returns, every corpus line on which two implementations'
\* captured values differ is recorded as inconsistent, its recorded digests give
\* every implementation its captured value and nothing else, and at least two
\* distinct values are recorded.
C2_DivergenceIsInconsistent ==
    Returned =>
      \A k \in CorpusIndex :
        (\E n, m \in ReportedNames : CapturedValue(n, k) # CapturedValue(m, k))
        => /\ k \in DOMAIN the_report.digests
           /\ Comparison(k).result = "inconsistent"
           /\ "digests" \in DOMAIN Comparison(k)
           /\ \A n \in ReportedNames :
                RecordedFor(Comparison(k), n) = {CapturedValue(n, k)}
           /\ Cardinality(UNION {RecordedFor(Comparison(k), n) : n \in ReportedNames}) >= 2

\* C2 witness: a report in which implementation a's and b's first lines differ
\* and the first comparison is inconsistent.
C2_Witness ==
    /\ Returned
    /\ impls_arg = <<"a", "b">>
    /\ Len(test_file_arg) >= 1
    /\ CapturedValue("a", 1) = <<"d1">>
    /\ CapturedValue("b", 1) = <<"d2">>
    /\ Comparison(1).result = "inconsistent"

\* the (name, digest) entries an inconsistent comparison records, counted with
\* their repetitions
RECURSIVE EntryCount(_, _)
EntryCount(impl_digests, j) ==
    IF j > Len(impl_digests) THEN 0
    ELSE Cardinality(DOMAIN impl_digests[j]) + EntryCount(impl_digests, j + 1)

\* C3 (as claimed): the digests recorded for an inconsistent line hold exactly one
\* entry per implementation name, none of them repeated.
C3_DigestsOneEntryPerImplementation ==
    Returned =>
      \A k \in DOMAIN the_report.digests :
        Comparison(k).result = "inconsistent"
        => /\ EntryCount(Comparison(k).digests, 1) = Cardinality(ReportedNames)
           /\ \A n \in ReportedNames :
                Cardinality({j \in DOMAIN Comparison(k).digests :
                               n \in DOMAIN Comparison(k).digests[j]}) = 1

\* C4 (as claimed): when report() returns for an empty implementation list, every
\* corpus line is no_comparison and the summary counts digest_matches = 0 and
\* digest_inconsistent = 0.
C4_NoImplementationsNoComparison ==
    (Returned /\ impls_arg = <<>>)
    => /\ Len(the_report.digests) = Len(test_file_arg)
       /\ \A k \in CorpusIndex : Comparison(k).result = "no_comparison"
       /\ the_report.summary.digest_matches = 0
       /\ the_report.summary.digest_inconsistent = 0

\* C4, the part the code keeps: with no implementation every line is no_comparison.
C4_ClassificationOnly ==
    (Returned /\ impls_arg = <<>>)
    => /\ Len(the_report.digests) = Len(test_file_arg)
       /\ \A k \in CorpusIndex : Comparison(k).result = "no_comparison"

\* C5: when report() returns, for every corpus line: an implementation whose
\* captured line begins with the sentinel prefix is recorded with the one value
\* "[unable to digest]" whatever follows the prefix; if all implementations'
\* lines are sentinel lines the comparison is full_match with that value; if some
\* are sentinel lines and others are not, it is inconsistent.
C5_SentinelCollapses ==
    Returned =>
      \A k \in CorpusIndex :
        /\ k \in DOMAIN the_report.digests
        /\ \A n \in ReportedNames :
             IsSentinelLine(n, k) => RecordedFor(Comparison(k), n) = {UNABLE}
        /\ (ReportedNames # {} /\ \A n \in ReportedNames : IsSentinelLine(n, k))
           => (Comparison(k).result = "full_match" /\ Comparison(k).digest = UNABLE)
        /\ (\E n, m \in ReportedNames : IsSentinelLine(n, k) /\ ~IsSentinelLine(m, k))
           => Comparison(k).result = "inconsistent"

\* C5 witness: a and b both wrote a sentinel line, with different tails, and the
\* comparison is a full match on "[unable to digest]".
C5_Witness ==
    /\ Returned
    /\ impls_arg = <<"a", "b">>
    /\ Len(test_file_arg) >= 1
    /\ Len(fs["a"]) >= 1 /\ Len(fs["b"]) >= 1
    /\ IsSentinelLine("a", 1) /\ IsSentinelLine("b", 1)
    /\ CapturedLine("a", 1) # CapturedLine("b", 1)
    /\ Comparison(1).result = "full_match"
    /\ Comparison(1).digest = UNABLE

----------------------------------------------------------------------------
(* Claims about tokenize_description *)

\* the number of comma-separated tokens of a description: one more than its commas
TokenCount(desc) == Cardinality({i \in DOMAIN desc : desc[i] = ","}) + 1

TokenizeCalled == tokenized # NotCalled

\* C10 (as claimed): tokenize_description returns components exactly when the
\* description has 2 or 3 tokens (has_name) or 1 or 2 tokens (no name), and raises
\* for every other token count.
C10_WrongTokenCountRejected ==
    TokenizeCalled =>
      (tokenized.raised <=>
         ~(TokenCount(description) \in (IF has_name THEN {2, 3} ELSE {1, 2})))

\* C10, the part the code keeps: too few tokens are rejected, and no accepted
\* token count is rejected.
C10_TooFewRejected ==
    TokenizeCalled =>
      (tokenized.raised <=>
         (TokenCount(description) < (IF has_name THEN 2 ELSE 1)))

----------------------------------------------------------------------------
(* Claims about resources *)

\* C6 (as claimed): an install() that finds the build directory of the resolved
\* identifier already there does not invoke the build's install procedure.
C6_ExistingBuildNotReinstalled ==
    (last.op = "install" /\ last.existed) => ~last.invoked

\* the executable test() looks for: the cached path, else the one in the build directory
ExecutableOf(o) == IF o.executable # None THEN o.executable ELSE o.build_dir

\* resource o cannot be run on disk d: not installed, no executable declared, or
\* the executable is not on disk
NotRunnable(o, d) ==
    \/ o.build_dir = None
    \/ (o.executable = None /\ ION_BUILDS[o.name].execute = None)
    \/ ExecutableOf(o) \notin d.exes

\* C7: a test() on a resource that is not installed, declares no executable or
\* whose executable is not on disk raises, spawns nothing, and leaves every
\* capture file as it was (not created, not truncated).
C7_TestFailsBeforeSpawn ==
    [][ (last'.op = "test" /\ last'.index \in DOMAIN objs
         /\ NotRunnable(objs[last'.index], disk))
        => /\ last'.raised
           /\ ~last'.spawn
           /\ ~last'.opened
           /\ disk'.captured = disk.captured
           /\ disk'.capture = disk.capture ]_vars

\* C7 witness: test() was called on an installed resource whose build left no
\* executable, and raised.
C7_Witness ==
    /\ last.op = "test"
    /\ last.raised
    /\ last.error = "does not exist"
    /\ objs[last.index].build_dir # None
    /\ objs[last.index].build_dir \notin disk.exes
    /\ objs[last.index].name \notin disk.captured

\* the other two cases of C7 are reached as well
C7_WitnessNotInstalled ==
    last.op = "test" /\ last.raised /\ last.error = "has not been installed"

C7_WitnessNotExecutable ==
    last.op = "test" /\ last.raised /\ last.error = "is not executable"

----------------------------------------------------------------------------
(* Claims about the orchestrator *)

\* a run that is neither --help nor --list
NormalRun == ~arguments.help /\ ~arguments.list

\* the steps of the kinds evs taken so far
Taken(evs) == {k \in DOMAIN trace : trace[k].ev \in evs}

\* the steps that resolve, build or run something
ResolutionSteps == {"install", "install_source", "generate", "test", "report"}

\* nothing has been cloned, built or captured under the output root
NothingResolved ==
    /\ serial = 0
    /\ Taken(ResolutionSteps) = {}
    /\ ~disk.tmp_root /\ ~disk.logs_dir
    /\ \A id \in Identifiers : disk.builds[id] = 0 /\ disk.logs[id] = 0
    /\ disk.exes = {} /\ disk.captured = {}

RequestedDescriptions ==
    arguments.implementation \o (IF arguments.local_only THEN <<>> ELSE ION_IMPLEMENTATIONS)

\* the name a description gives: the text before its first comma
NameOf(desc) == split(desc)[1]

RequestsUnknownName ==
    \E i \in DOMAIN RequestedDescriptions :
        NameOf(RequestedDescriptions[i]) \notin DOMAIN ION_BUILDS

\* C9: when any requested implementation names a resource without a build,
\* the run ends in a configuration error and no clone, checkout or install of
\* any implementation ever starts.
C9_UnknownNameBeforeCloning ==
    (NormalRun /\ RequestsUnknownName) =>
        /\ NothingResolved
        /\ disk.cwd = CwdStart
        /\ pc \in {"start", "parse", "failed"}
        /\ pc = "failed" => failure = "configuration"

\* a known implementation is named before the unknown one, the tools are
\* there, and the run has ended in the configuration error
C9_Witness ==
    /\ arguments.implementation = <<DescA, DescUnknown>>
    /\ git_ok
    /\ pc = "failed" /\ failure = "configuration"
    /\ objs = <<>>

\* C11: in a --help or --list run nothing but the usage text or the list of
\* builds is produced: the output directory is not created, no description is
\* parsed, no tool is checked, nothing is cloned, installed, generated, run or
\* compared, and the run does not fail.
C11_ListAndHelpShortCircuit ==
    ~NormalRun =>
        /\ Taken({"makedirs", "parse", "check_tools"} \cup ResolutionSteps) = {}
        /\ NothingResolved
        /\ objs = <<>>
        /\ disk \in {[EmptyDisk EXCEPT !.out_root = e] : e \in BOOLEAN}
        /\ rpc = "idle" /\ the_report = NoReport
        /\ pc \in {"start", "done"}
        /\ failure = ""
        /\ pc = "done" =>
             trace = <<Event(IF arguments.help THEN "usage" ELSE "list", 0)>>

\* a --list run has ended although git cannot be run and the output directory
\* does not exist
C11_Witness ==
    /\ arguments.list /\ ~arguments.help
    /\ ~git_ok
    /\ ~disk.out_root
    /\ pc = "done"
    /\ trace = <<Event("list", 0)>>

\* the --help run is reached as well
C11_WitnessHelp ==
    arguments.help /\ ~git_ok /\ ~disk.out_root /\ pc = "done"

\* the place of a step in the order of line 300-332
Rank(ev) ==
    CASE ev = "makedirs"       -> 1
      [] ev = "parse"          -> 2
      [] ev = "check_tools"    -> 3
      [] ev = "install"        -> 4
      [] ev = "install_source" -> 5
      [] ev = "generate"       -> 6
      [] ev = "test"           -> 7
      [] ev = "report"         -> 8
      [] OTHER                 -> 0

\* the implementations whose step ev has been taken, as the sequence of their
\* places in the list
IndicesOf(ev) == [j \in 1..Cardinality(Taken({ev})) |->
                    trace[CHOOSE k \in Taken({ev}) :
                            Cardinality({m \in Taken({ev}) : m <= k}) = j].i]

\* the steps taken so far are in the order of the phases, the implementations
\* within a phase in the order of the list, and no phase has begun before the
\* one before it was complete
PhasesInOrder ==
    /\ \A j, k \in DOMAIN trace :
         j < k => \/ Rank(trace[j].ev) < Rank(trace[k].ev)
                  \/ /\ trace[j].ev = trace[k].ev
                     /\ trace[j].ev \in {"install", "test"}
                     /\ trace[j].i < trace[k].i
    /\ IndicesOf("install") = [j \in 1..Cardinality(Taken({"install"})) |-> j]
    /\ IndicesOf("test") = [j \in 1..Cardinality(Taken({"test"})) |-> j]
    /\ Taken({"install_source"}) # {} => Cardinality(Taken({"install"})) = Len(objs)
    /\ Taken({"generate"}) # {} =>
         /\ Cardinality(Taken({"install_source"})) = 1
         /\ last.op = "install" => ~last.raised
    /\ Taken({"test"}) # {} => Cardinality(Taken({"generate"})) = 1
    /\ Taken({"report"}) # {} =>
         /\ Cardinality(Taken({"test"})) = Len(objs)
         /\ Cardinality(Taken({"generate"})) = 1
         /\ failure = ""

\* the list of implementations is the explicit descriptions in the order given,
\* then the default ones unless --local-only
ExplicitThenDefault ==
    Taken({"check_tools"}) # {} =>
        /\ Len(objs) = Len(RequestedDescriptions)
        /\ \A i \in DOMAIN objs : objs[i].name = NameOf(RequestedDescriptions[i])

\* C12: in every normal run the steps occur in the order install every
\* implementation (explicit ones first, then the default ones), install the
\* test source, generate the corpus, run every implementation, report; no step
\* of a phase is taken before the phase before it is complete; and once a step
\* has failed no further step is taken.
C12_PhasesInOrder ==
    [][ /\ pc # "failed"
        /\ PhasesInOrder'
        /\ ExplicitThenDefault'
        /\ (failure' # "" <=> pc' = "failed") ]_vars

\* a complete run of two explicit implementations and the default one
C12_Witness ==
    /\ pc = "done" /\ NormalRun
    /\ Len(arguments.implementation) = 2
    /\ Len(objs) = 3
    /\ [k \in DOMAIN trace |-> trace[k].ev] =
         <<"makedirs", "parse", "check_tools", "install", "install", "install",
           "install_source", "generate", "test", "test", "test", "report">>

\* a run that failed in the second implementation's run after the first one's
C12_WitnessFailed ==
    /\ pc = "failed" /\ failure = "execution"
    /\ trace[Len(trace)] = Event("test", 2)

\* the steps of __git_clone_revision and install() whose failure is the error raised
FailedSteps == FailPoints \ {"none"}

\* C13 (as claimed): after every install(), however __git_clone_revision ended,
\* the staging root does not exist, and an install() that raised raised the
\* error of the step that failed, not an error of the cleanup.
C13_StagingRootRemovedErrorKept ==
    last.op = "install" =>
        /\ ~disk.tmp_root
        /\ last.raised => last.error \in FailedSteps

\* C13, the part the code keeps: the staging root does not exist after any
\* install(), and the error of a failed clone, checkout, submodule update,
\* rev-parse, log-directory creation or move is the one raised.
C13_StagingRootRemoved ==
    last.op = "install" =>
        /\ ~disk.tmp_root
        /\ (last.raised /\ last.error # "rmtree") => last.error \in FailedSteps
        /\ last.error = "rmtree" =>
             \A id \in Identifiers : disk.builds[id] # serial /\ disk.logs[id] # serial

\* the install() step just taken got through __git_clone_revision
Resolved(l) == l.op = "install" /\ (~l.raised \/ l.error = "install_proc")

\* C14: an install() whose resolution finds the build directory of its
\* identifier already there leaves every build directory and every build log
\* as it was and drops the staging clone; one that finds none makes this clone
\* the build directory of that identifier and this clone's log its build log,
\* and touches no other.
C14_ReuseKeepsBuildElseCloneMoved ==
    [][ (Resolved(last') /\ last'.index \in DOMAIN objs') =>
          LET id == objs'[last'.index].identifier
          IN  /\ id \in Identifiers
              /\ objs'[last'.index].build_dir = id
              /\ objs'[last'.index].build_log = id
              /\ last'.existed <=> disk.builds[id] # 0
              /\ ~disk'.tmp_root
              /\ last'.existed =>
                   /\ disk'.builds = disk.builds
                   /\ disk'.logs = disk.logs
              /\ ~last'.existed =>
                   /\ disk'.builds = [disk.builds EXCEPT ![id] = serial']
                   /\ disk'.logs = [disk.logs EXCEPT ![id] = serial'] ]_vars

\* the second install() found the build directory the first one made and kept it
C14_Witness ==
    /\ last.op = "install" /\ ~last.raised /\ last.existed
    /\ serial = 2
    /\ disk.builds[objs[last.index].identifier] = 1
    /\ disk.logs[objs[last.index].identifier] = 1

\* the branch that moves the clone is reached as well
C14_WitnessMoved ==
    /\ last.op = "install" /\ ~last.raised /\ ~last.existed
    /\ disk.builds[objs[last.index].identifier] = serial
    /\ disk.logs[objs[last.index].identifier] = serial

\* C15 (as claimed): every install(), whether it returns or raises, leaves the
\* working directory the one it was when install() was called, and never in
\* the staging directory or in a directory that has been removed.
C15_WorkingDirectoryRestored ==
    [][ serial' # serial =>
          /\ disk'.cwd = disk.cwd
          /\ disk'.cwd.kind # "tmp"
          /\ ~disk'.cwd.gone ]_vars

\* C15, what the code does: an install() that returns leaves the working
\* directory at the output root; one that raises leaves it where the failing
\* step found it: unchanged, in the removed staging directory, or in the
\* build directory.
C15_OutputRootOnReturnOnly ==
    [][ serial' # serial =>
          /\ ~last'.raised => disk'.cwd = CwdOutputRoot
          /\ last'.raised =>
               \/ disk'.cwd = disk.cwd /\ last'.error \in {"rmtree", "clone"}
               \/ disk'.cwd.kind = "tmp" /\ disk'.cwd.gone
               \/ disk'.cwd.kind = "build" ]_vars

----------------------------------------------------------------------------
(* More claims about the comparator *)

----------------------------------------------------------------------------
(* More claims about resources *)

\* reading o.identifier raises (lines 118-122) and o's build directory is unknown
Unresolved(o) == o.identifier = None /\ o.build_dir = None

\* C17 (as claimed): a resource just constructed, and a resource whose
\* install() has just raised in __git_clone_revision, has no identifier and no
\* build directory; and a test() on a resource that has never got through
\* __git_clone_revision raises 'has not been installed'.
C17_IdentifierOnlyAfterResolution ==
    /\ (last.op = "new" /\ ~last.raised) => Unresolved(objs[last.index])
    /\ (last.op = "install" /\ last.raised /\ last.error # "install_proc")
         => Unresolved(objs[last.index])
    /\ (last.op = "test" /\ \A id \in Identifiers : disk.builds[id] = 0)
         => (last.raised /\ last.error = "has not been installed")

\* C17, the part the code keeps: a resource that was never installed, or whose
\* only install() raised before line 140 (in the creation of the staging root,
\* the clone, the checkout, the submodule update or rev-parse), has no
\* identifier and no build directory.
C17_UnresolvedBeforeRevParse ==
    /\ (last.op = "new" /\ ~last.raised) => Unresolved(objs[last.index])
    /\ (last.op = "install" /\ last.raised /\ serial = 1
        /\ last.error \in {"rmtree", "clone", "checkout", "submodule", "rev_parse"})
         => Unresolved(objs[last.index])

----------------------------------------------------------------------------
(* Claims about the summary and the outcomes *)

\* the comparisons of the returned report with the given result
WithResult(r) == {k \in DOMAIN the_report.digests : Comparison(k).result = r}

\* C18 (as claimed): in every returned report, of the first call or a later
\* one, the three counters add up to test_count and each equals the number of
\* the report's comparisons with its outcome.
C18_CountersMatchComparisons ==
    Returned =>
        /\ the_report.summary.digest_matches
             + the_report.summary.digest_inconsistent
             + the_report.summary.digest_no_comparison
           = the_report.summary.test_count
        /\ the_report.summary.digest_matches = Cardinality(WithResult("full_match"))
        /\ the_report.summary.digest_inconsistent = Cardinality(WithResult("inconsistent"))
        /\ the_report.summary.digest_no_comparison = Cardinality(WithResult("no_comparison"))

\* C18, the part the code keeps: the counters count the comparisons of every
\* report() call of the process so far, so they match the report of a call
\* made while they were zero.
C18_CountersMatchFirstReport ==
    (Returned /\ Counted = Len(the_report.digests)) =>
        /\ the_report.summary.test_count = Len(the_report.digests)
        /\ the_report.summary.digest_matches = Cardinality(WithResult("full_match"))
        /\ the_report.summary.digest_inconsistent = Cardinality(WithResult("inconsistent"))
        /\ the_report.summary.digest_no_comparison = Cardinality(WithResult("no_comparison"))

\* C19 (as claimed): a comparison is full_match only if every implementation's
\* capture file has a line for that corpus line.
C19_FullMatchOnlyOnEmittedLines ==
    Returned =>
        \A k \in DOMAIN the_report.digests :
            Comparison(k).result = "full_match"
            => \A n \in ReportedNames : k <= Len(fs[n])

\* C19, what the code does: an exhausted stream reads as the empty digest, which
\* is compared like any other; a line is full_match exactly when the values
\* read, '' for an exhausted stream, are all the same.
C19_ExhaustedReadsAsEmptyDigest ==
    Returned =>
        \A k \in DOMAIN the_report.digests :
            Comparison(k).result = "full_match"
            <=> /\ ReportedNames # {}
                /\ \A n, m \in ReportedNames : CapturedValue(n, k) = CapturedValue(m, k)

----------------------------------------------------------------------------
(* Claims about the capture files of a run *)

\* the implementations of the run whose test() has returned
TestsReturned ==
    Cardinality(Taken({"test"})) - (IF failure = "execution" THEN 1 ELSE 0)

\* the streams report() opened: lines 196-198
StreamsOpened == DOMAIN report_files_of(impls_arg)

\* every capture file written in the run is still the one its implementation
\* wrote, and report() read one stream per implementation
OwnCapturePerImplementation ==
    /\ Cardinality(disk.captured) = TestsReturned
    /\ Taken({"report"}) # {} => Cardinality(StreamsOpened) = Len(objs)

\* C20 (as claimed): in every normal run, also one that lists a name twice,
\* each implementation's test() writes a capture file that no other
\* implementation of the run writes, and report() reads as many streams as the
\* run has implementations.
C20_EveryImplementationContributes ==
    NormalRun => OwnCapturePerImplementation

\* no two implementations of the run have the same name
DistinctNames ==
    \A i, j \in DOMAIN objs : objs[i].name = objs[j].name => i = j

\* C20, the part the code keeps: when the implementations of the run have
\* different names, each has its own capture file and its own stream.
C20_DistinctNamesContribute ==
    (NormalRun /\ DistinctNames) => OwnCapturePerImplementation

====
